---- MODULE Spec2Model ----
(***************************************************************************)
(* The scalable probabilistic broadcast engine (package scalable):         *)
(* per-process state, the sampler, the broadcast primitives and the stage  *)
(* machine of Process.Receive / Process.Broadcast.                         *)
(***************************************************************************)
EXTENDS Integers, Sequences, FiniteSets, Bags, TLC

(* ------------------------------------------------------------------ *)
(* Bounds of the model                                                  *)
(* ------------------------------------------------------------------ *)
\* values carried by messages are 1..MaxValue
MaxValue == 2
\* rand.Int() yields 0..MaxRand
MaxRand == 3
\* poisson.Rand() yields 0..MaxPoisson
MaxPoisson == 3
\* the sampler is run with 1..MaxProcs participants
MaxProcs == 3
\* and with sample sizes 0..MaxSize
MaxSize == 3
\* the transport holds up to MaxInbound ECHO and READY messages per process
MaxInbound == 2

Values == 1..MaxValue

VARIABLES
    config,            \* package config: the parameters read once at start
    env,               \* what the transport and the application hand the engines
    msgCounter,        \* msgCounter[p]: Process.msgCounter
    deliveredMessages, \* deliveredMessages[p][author]: map seq -> value
    messagesLog,       \* messagesLog[p][author]: map seq -> messageState
    out,               \* what the last handler invocation sent and logged
    net,               \* messages in flight between the processes
    draw               \* the locals of a sampler call in progress

vars == <<config, env, msgCounter, deliveredMessages, messagesLog, out, net, draw>>

\* Process.pids: the ordered PID list, the same at every process
pids == [i \in 1..config.ProcessCount |-> i - 1]

PidSet == {pids[i] : i \in DOMAIN pids}

Stages == {"GOSSIP_SUBSCRIBE", "GOSSIP", "ECHO_SUBSCRIBE", "ECHO", "READY_SUBSCRIBE", "READY"}

\* a nil *messages.ScalableProtocolMessage
Nil == [Stage |-> "nil"]

ScalableProtocolMessage(stage, msgData) == [Stage |-> stage, MessageData |-> msgData]

\* m[k] = v on a Go map
Put(m, k, v) == [x \in (DOMAIN m) \cup {k} |-> IF x = k THEN v ELSE m[x]]

EmptyMap == [x \in {} |-> 0]

NoOut == [msgs |-> EmptyBag, log |-> <<>>, ready |-> {}]

newMessageState ==
    [ receivedEcho |-> {},
      receivedReady |-> EmptyMap,
      echoMessagesStat |-> [v \in Values |-> 0],
      readySampleStat |-> [v \in Values |-> 0],
      deliverySampleStat |-> [v \in Values |-> 0],
      readyMessagesSent |-> {},
      gossipSample |-> {},
      echoSample |-> {},
      readySample |-> {},
      deliverySample |-> {},
      echoSubscriptionSet |-> {},
      readySubscriptionSet |-> {},
      gossipMessage |-> Nil,
      echoMessage |-> Nil,
      sentReadyFromSieve |-> FALSE ]

getRandomPid(random) == pids[(random % config.ProcessCount) + 1]

\* context.RequestWithCustomSender(target, msg, p.actorPid)
Request(p, target, msg) == SetToBag({[to |-> target, sender |-> p, msg |-> msg]})

broadcastToSet(p, set, msg) == SetToBag({[to |-> q, sender |-> p, msg |-> msg] : q \in set})

\* poisson.Rand(): a Poisson variable of mean 0 is 0
poissonRand == IF config.GossipSampleSize = 0 THEN {0} ELSE 0..env.poisson

\* a gSize that is not clipped
clip_None(gSize) == gSize

\* if gSize > config.ProcessCount { gSize = config.ProcessCount }
clip(gSize) == IF gSize > config.ProcessCount THEN config.ProcessCount ELSE gSize

\* the sets generateGossipSample can return: the loop runs until the sample
\* holds gSize distinct PIDs
generateGossipSample ==
    LET reachable == {getRandomPid(r) : r \in 0..MaxRand}
    IN  UNION {{s \in SUBSET reachable : Cardinality(s) = clip(g)} : g \in poissonRand}

\* the outcomes of sample: size draws, then the subscription to the drawn set
sample(p, stage, msgData, size) ==
    LET drawn == {{getRandomPid(d[i]) : i \in 1..size} : d \in [1..size -> 0..MaxRand]}
    IN  {[sample |-> s,
          msgs |-> broadcastToSet(p, s, ScalableProtocolMessage(stage, msgData))] : s \in drawn}

HasState(p, msgData) == msgData.SeqNumber \in DOMAIN messagesLog[p][msgData.Author]

\* an initMessageState that does not look for the state of the key
initMessageState_Always(p, msgData) ==
    {[msgState |->
         [newMessageState EXCEPT
             !.receivedReady = [q \in PidSet |-> {}],
             !.gossipSample = g,
             !.echoSample = e.sample,
             !.readySample = r.sample,
             !.deliverySample = d.sample],
      msgs |->
         broadcastToSet(p, g, ScalableProtocolMessage("GOSSIP_SUBSCRIBE", msgData))
         (+) e.msgs (+) r.msgs (+) d.msgs] :
       g \in generateGossipSample,
       e \in sample(p, "ECHO_SUBSCRIBE", msgData, config.EchoSampleSize),
       r \in sample(p, "READY_SUBSCRIBE", msgData, config.ReadySampleSize),
       d \in sample(p, "READY_SUBSCRIBE", msgData, config.DeliverySampleSize)}

\* the outcomes of initMessageState: the state of the key and what was sent
initMessageState(p, msgData) ==
    IF HasState(p, msgData)
    THEN {[msgState |-> messagesLog[p][msgData.Author][msgData.SeqNumber], msgs |-> EmptyBag]}
    ELSE {[msgState |->
              [newMessageState EXCEPT
                  !.receivedReady = [q \in PidSet |-> {}],
                  !.gossipSample = g,
                  !.echoSample = e.sample,
                  !.readySample = r.sample,
                  !.deliverySample = d.sample],
           msgs |->
              broadcastToSet(p, g, ScalableProtocolMessage("GOSSIP_SUBSCRIBE", msgData))
              (+) e.msgs (+) r.msgs (+) d.msgs] :
            g \in generateGossipSample,
            e \in sample(p, "ECHO_SUBSCRIBE", msgData, config.EchoSampleSize),
            r \in sample(p, "READY_SUBSCRIBE", msgData, config.ReadySampleSize),
            d \in sample(p, "READY_SUBSCRIBE", msgData, config.DeliverySampleSize)}

\* the two lines the engine prints
Detected(p) == [pid |-> p, line |-> "Detected a duplicated seq number attack"]

Accepted(p, msgData) == [pid |-> p, line |-> "Accepted transaction", msgData |-> msgData]

\* a delivered that never finds the key delivered
delivered_NeverFound(p, msgData) == [delivered |-> FALSE, log |-> <<>>]

delivered(p, msgData) ==
    LET isDelivered == msgData.SeqNumber \in DOMAIN deliveredMessages[p][msgData.Author]
    IN  [delivered |-> isDelivered,
         log |-> IF isDelivered /\ deliveredMessages[p][msgData.Author][msgData.SeqNumber] # msgData.Value
                 THEN <<Detected(p)>> ELSE <<>>]

deliver(p, msgData) ==
    [deliveredMessages |->
        [deliveredMessages[p] EXCEPT ![msgData.Author] = Put(@, msgData.SeqNumber, msgData.Value)],
     log |-> <<Accepted(p, msgData)>>]

broadcastGossip(p, msgState, msgData) ==
    LET gossipMessage == ScalableProtocolMessage("GOSSIP", msgData)
    IN  [msgState |-> [msgState EXCEPT !.gossipMessage = gossipMessage],
         msgs |-> broadcastToSet(p, msgState.gossipSample, gossipMessage)]

broadcastReady(p, msgState, msgData) ==
    broadcastToSet(p, msgState.readySubscriptionSet, ScalableProtocolMessage("READY", msgData))

\* a call of broadcastReady: by the Sieve or by the READY handler
ReadyEvent(p, origin, msgData) == [pid |-> p, origin |-> origin, msgData |-> msgData]

\* a Sieve condition without the sentReadyFromSieve guard
sieveCondition_NoGuard(msgState, msgData) ==
    /\ msgState.echoMessage # Nil
    /\ msgData.Value = msgState.echoMessage.MessageData.Value
    /\ msgState.echoMessagesStat[msgData.Value] >= config.EchoThreshold

sieveCondition(msgState, msgData) ==
    /\ ~msgState.sentReadyFromSieve
    /\ msgState.echoMessage # Nil
    /\ msgData.Value = msgState.echoMessage.MessageData.Value
    /\ msgState.echoMessagesStat[msgData.Value] >= config.EchoThreshold

\* a Sieve that overwrites readyMessagesSent
maybeSendReadyFromSieve_Reset(p, msgState, msgData) ==
    IF sieveCondition(msgState, msgData)
    THEN [msgState |-> [msgState EXCEPT !.readyMessagesSent = {msgData.Value},
                                        !.sentReadyFromSieve = TRUE],
          msgs |-> broadcastReady(p, msgState, msgData),
          ready |-> {ReadyEvent(p, "sieve", msgData)}]
    ELSE [msgState |-> msgState, msgs |-> EmptyBag, ready |-> {}]

maybeSendReadyFromSieve(p, msgState, msgData) ==
    IF sieveCondition(msgState, msgData)
    THEN [msgState |-> [msgState EXCEPT !.readyMessagesSent = @ \cup {msgData.Value},
                                        !.sentReadyFromSieve = TRUE],
          msgs |-> broadcastReady(p, msgState, msgData),
          ready |-> {ReadyEvent(p, "sieve", msgData)}]
    ELSE [msgState |-> msgState, msgs |-> EmptyBag, ready |-> {}]

\* the end of a handler invocation: the state of the key is stored (by
\* initMessageState), the sends and log lines are recorded
Commit(p, msgData, msgState, delivd, o) ==
    /\ messagesLog' = [messagesLog EXCEPT ![p][msgData.Author] = Put(@, msgData.SeqNumber, msgState)]
    /\ deliveredMessages' = [deliveredMessages EXCEPT ![p] = delivd]
    /\ out' = o

onGossipSubscribe(p, senderPid, msgData, init) ==
    LET msgState == init.msgState
    IN  IF senderPid \in msgState.gossipSample
        THEN [msgState |-> msgState, msgs |-> init.msgs]
        ELSE [msgState |-> [msgState EXCEPT !.gossipSample = @ \cup {senderPid}],
              msgs |-> init.msgs (+)
                       (IF msgState.gossipMessage # Nil
                        THEN Request(p, senderPid, msgState.gossipMessage)
                        ELSE EmptyBag)]

ReceiveGossipSubscribe(p, senderPid, msgData) ==
    \E init \in initMessageState(p, msgData) :
        LET r == onGossipSubscribe(p, senderPid, msgData, init)
        IN  /\ Commit(p, msgData, r.msgState, deliveredMessages[p],
                      [msgs |-> r.msgs, log |-> <<>>, ready |-> {}])
            /\ UNCHANGED msgCounter

\* a GOSSIP handler that does not try the Sieve
onGossip_NoSieve(p, senderPid, msgData, init) ==
    LET msgState == init.msgState
    IN  IF msgState.gossipMessage = Nil
        THEN LET g == broadcastGossip(p, msgState, msgData)
                 echoMessage == ScalableProtocolMessage("ECHO", msgData)
                 s1 == [g.msgState EXCEPT !.echoMessage = echoMessage]
             IN  [msgState |-> s1,
                  msgs |-> init.msgs (+) g.msgs
                           (+) broadcastToSet(p, s1.echoSubscriptionSet, echoMessage),
                  ready |-> {}]
        ELSE [msgState |-> msgState, msgs |-> init.msgs, ready |-> {}]

onGossip(p, senderPid, msgData, init) ==
    LET msgState == init.msgState
    IN  IF msgState.gossipMessage = Nil
        THEN LET g == broadcastGossip(p, msgState, msgData)
                 echoMessage == ScalableProtocolMessage("ECHO", msgData)
                 s1 == [g.msgState EXCEPT !.echoMessage = echoMessage]
                 sv == maybeSendReadyFromSieve(p, s1, msgData)
             IN  [msgState |-> sv.msgState,
                  msgs |-> init.msgs (+) g.msgs
                           (+) broadcastToSet(p, s1.echoSubscriptionSet, echoMessage)
                           (+) sv.msgs,
                  ready |-> sv.ready]
        ELSE [msgState |-> msgState, msgs |-> init.msgs, ready |-> {}]

ReceiveGossip(p, senderPid, msgData) ==
    \E init \in initMessageState(p, msgData) :
        LET r == onGossip(p, senderPid, msgData, init)
        IN  /\ Commit(p, msgData, r.msgState, deliveredMessages[p],
                      [msgs |-> r.msgs, log |-> <<>>, ready |-> r.ready])
            /\ UNCHANGED msgCounter

onEchoSubscribe(p, senderPid, msgData, init) ==
    LET msgState == init.msgState
    IN  IF senderPid \in msgState.echoSubscriptionSet
        THEN [msgState |-> msgState, msgs |-> init.msgs]
        ELSE [msgState |-> [msgState EXCEPT !.echoSubscriptionSet = @ \cup {senderPid}],
              msgs |-> init.msgs (+)
                       (IF msgState.echoMessage # Nil
                        THEN Request(p, senderPid, msgState.echoMessage)
                        ELSE EmptyBag)]

ReceiveEchoSubscribe(p, senderPid, msgData) ==
    \E init \in initMessageState(p, msgData) :
        LET r == onEchoSubscribe(p, senderPid, msgData, init)
        IN  /\ Commit(p, msgData, r.msgState, deliveredMessages[p],
                      [msgs |-> r.msgs, log |-> <<>>, ready |-> {}])
            /\ UNCHANGED msgCounter

\* an ECHO guard that forgets the senders already counted
echoAccepted_NoDedup(msgState, senderPid) == senderPid \in msgState.echoSample

echoAccepted(msgState, senderPid) ==
    ~(senderPid \notin msgState.echoSample \/ senderPid \in msgState.receivedEcho)

onEcho(p, senderPid, msgData, init) ==
    LET msgState == init.msgState
    IN  IF ~echoAccepted(msgState, senderPid)
        THEN [msgState |-> msgState, msgs |-> init.msgs, ready |-> {}]
        ELSE LET s1 == [msgState EXCEPT !.receivedEcho = @ \cup {senderPid},
                                        !.echoMessagesStat[msgData.Value] = @ + 1]
                 sv == maybeSendReadyFromSieve(p, s1, msgData)
             IN  [msgState |-> sv.msgState, msgs |-> init.msgs (+) sv.msgs, ready |-> sv.ready]

ReceiveEcho(p, senderPid, msgData) ==
    \E init \in initMessageState(p, msgData) :
        LET r == onEcho(p, senderPid, msgData, init)
        IN  /\ Commit(p, msgData, r.msgState, deliveredMessages[p],
                      [msgs |-> r.msgs, log |-> <<>>, ready |-> r.ready])
            /\ UNCHANGED msgCounter

\* a replay of the subscription's own value only
replayReady_OwnValue(p, senderPid, msgData, msgState) ==
    IF msgData.Value \in msgState.readyMessagesSent
    THEN Request(p, senderPid, ScalableProtocolMessage("READY", msgData))
    ELSE EmptyBag

\* one READY per value in readyMessagesSent, to the new subscriber
replayReady(p, senderPid, msgData, msgState) ==
    SetToBag({[to |-> senderPid, sender |-> p,
               msg |-> ScalableProtocolMessage("READY",
                          [Author |-> msgData.Author, SeqNumber |-> msgData.SeqNumber, Value |-> val])] :
              val \in msgState.readyMessagesSent})

\* a READY_SUBSCRIBE handler without the guard on readySubscriptionSet
onReadySubscribe_NoGuard(p, senderPid, msgData, init) ==
    [msgState |-> [init.msgState EXCEPT !.readySubscriptionSet = @ \cup {senderPid}],
     msgs |-> init.msgs (+) replayReady(p, senderPid, msgData, init.msgState)]

onReadySubscribe(p, senderPid, msgData, init) ==
    LET msgState == init.msgState
    IN  IF senderPid \in msgState.readySubscriptionSet
        THEN [msgState |-> msgState, msgs |-> init.msgs]
        ELSE [msgState |-> [msgState EXCEPT !.readySubscriptionSet = @ \cup {senderPid}],
              msgs |-> init.msgs (+) replayReady(p, senderPid, msgData, msgState)]

ReceiveReadySubscribe(p, senderPid, msgData) ==
    \E init \in initMessageState(p, msgData) :
        LET r == onReadySubscribe(p, senderPid, msgData, init)
        IN  /\ Commit(p, msgData, r.msgState, deliveredMessages[p],
                      [msgs |-> r.msgs, log |-> <<>>, ready |-> {}])
            /\ UNCHANGED msgCounter

\* a ready-sample branch that amplifies one READY early
readySampleBranch_Early(p, senderPid, msgData, msgState) ==
    IF senderPid \in msgState.readySample
    THEN LET s1 == [msgState EXCEPT !.readySampleStat[msgData.Value] = @ + 1]
         IN  IF s1.readySampleStat[msgData.Value] >= config.ReadyThreshold - 1
             THEN [msgState |-> [s1 EXCEPT !.readyMessagesSent = @ \cup {msgData.Value}],
                   msgs |-> broadcastReady(p, s1, msgData),
                   ready |-> {ReadyEvent(p, "amplification", msgData)}]
             ELSE [msgState |-> s1, msgs |-> EmptyBag, ready |-> {}]
    ELSE [msgState |-> msgState, msgs |-> EmptyBag, ready |-> {}]

\* the ready-sample branch of the READY handler
readySampleBranch(p, senderPid, msgData, msgState) ==
    IF senderPid \in msgState.readySample
    THEN LET s1 == [msgState EXCEPT !.readySampleStat[msgData.Value] = @ + 1]
         IN  IF s1.readySampleStat[msgData.Value] >= config.ReadyThreshold
             THEN [msgState |-> [s1 EXCEPT !.readyMessagesSent = @ \cup {msgData.Value}],
                   msgs |-> broadcastReady(p, s1, msgData),
                   ready |-> {ReadyEvent(p, "amplification", msgData)}]
             ELSE [msgState |-> s1, msgs |-> EmptyBag, ready |-> {}]
    ELSE [msgState |-> msgState, msgs |-> EmptyBag, ready |-> {}]

\* a delivery-sample branch that counts the members of readySample
deliverySampleBranch_WrongSample(p, senderPid, msgData, msgState) ==
    IF senderPid \in msgState.readySample
    THEN LET s1 == [msgState EXCEPT !.deliverySampleStat[msgData.Value] = @ + 1]
             d == delivered(p, msgData)
         IN  IF ~d.delivered /\ s1.deliverySampleStat[msgData.Value] >= config.DeliveryThreshold
             THEN [msgState |-> s1,
                   deliveredMessages |-> deliver(p, msgData).deliveredMessages,
                   log |-> d.log \o deliver(p, msgData).log]
             ELSE [msgState |-> s1, deliveredMessages |-> deliveredMessages[p], log |-> d.log]
    ELSE [msgState |-> msgState, deliveredMessages |-> deliveredMessages[p], log |-> <<>>]

\* the delivery-sample branch of the READY handler
deliverySampleBranch(p, senderPid, msgData, msgState) ==
    IF senderPid \in msgState.deliverySample
    THEN LET s1 == [msgState EXCEPT !.deliverySampleStat[msgData.Value] = @ + 1]
             d == delivered(p, msgData)
         IN  IF ~d.delivered /\ s1.deliverySampleStat[msgData.Value] >= config.DeliveryThreshold
             THEN [msgState |-> s1,
                   deliveredMessages |-> deliver(p, msgData).deliveredMessages,
                   log |-> d.log \o deliver(p, msgData).log]
             ELSE [msgState |-> s1, deliveredMessages |-> deliveredMessages[p], log |-> d.log]
    ELSE [msgState |-> msgState, deliveredMessages |-> deliveredMessages[p], log |-> <<>>]

\* a READY handler that counts a READY it has counted before
onReady_NoDedup(p, senderPid, msgData, init) ==
    LET s1 == [init.msgState EXCEPT !.receivedReady[senderPid] = @ \cup {msgData.Value}]
        rb == readySampleBranch(p, senderPid, msgData, s1)
        db == deliverySampleBranch(p, senderPid, msgData, rb.msgState)
    IN  [msgState |-> db.msgState, deliveredMessages |-> db.deliveredMessages,
         msgs |-> init.msgs (+) rb.msgs, log |-> db.log, ready |-> rb.ready]

\* a READY handler that accepts the first READY of a sender only
onReady_FirstOnly(p, senderPid, msgData, init) ==
    LET msgState == init.msgState
    IN  IF msgState.receivedReady[senderPid] # {}
        THEN [msgState |-> msgState, deliveredMessages |-> deliveredMessages[p],
              msgs |-> init.msgs, log |-> <<>>, ready |-> {}]
        ELSE LET s1 == [msgState EXCEPT !.receivedReady[senderPid] = @ \cup {msgData.Value}]
                 rb == readySampleBranch(p, senderPid, msgData, s1)
                 db == deliverySampleBranch(p, senderPid, msgData, rb.msgState)
             IN  [msgState |-> db.msgState, deliveredMessages |-> db.deliveredMessages,
                  msgs |-> init.msgs (+) rb.msgs, log |-> db.log, ready |-> rb.ready]

onReady(p, senderPid, msgData, init) ==
    LET msgState == init.msgState
    IN  IF msgData.Value \in msgState.receivedReady[senderPid]
        THEN [msgState |-> msgState, deliveredMessages |-> deliveredMessages[p],
              msgs |-> init.msgs, log |-> <<>>, ready |-> {}]
        ELSE LET s1 == [msgState EXCEPT !.receivedReady[senderPid] = @ \cup {msgData.Value}]
                 rb == readySampleBranch(p, senderPid, msgData, s1)
                 db == deliverySampleBranch(p, senderPid, msgData, rb.msgState)
             IN  [msgState |-> db.msgState, deliveredMessages |-> db.deliveredMessages,
                  msgs |-> init.msgs (+) rb.msgs, log |-> db.log, ready |-> rb.ready]

ReceiveReady(p, senderPid, msgData) ==
    \E init \in initMessageState(p, msgData) :
        LET r == onReady(p, senderPid, msgData, init)
        IN  /\ Commit(p, msgData, r.msgState, r.deliveredMessages,
                      [msgs |-> r.msgs, log |-> r.log, ready |-> r.ready])
            /\ UNCHANGED msgCounter

\* a Broadcast that leaves msgCounter as it is
Broadcast_NoIncrement(p, value) ==
    LET msgData == [Author |-> p, SeqNumber |-> msgCounter[p], Value |-> value]
    IN  /\ \E init \in initMessageState(p, msgData) :
              LET g == broadcastGossip(p, init.msgState, msgData)
              IN  Commit(p, msgData, g.msgState, deliveredMessages[p],
                         [msgs |-> init.msgs (+) g.msgs, log |-> <<>>, ready |-> {}])
        /\ UNCHANGED msgCounter

\* Process.Broadcast, called by Process.Receive on a *messages.Broadcast
Broadcast(p, value) ==
    LET msgData == [Author |-> p, SeqNumber |-> msgCounter[p], Value |-> value]
    IN  /\ \E init \in initMessageState(p, msgData) :
              LET g == broadcastGossip(p, init.msgState, msgData)
              IN  Commit(p, msgData, g.msgState, deliveredMessages[p],
                         [msgs |-> init.msgs (+) g.msgs, log |-> <<>>, ready |-> {}])
        /\ msgCounter' = [msgCounter EXCEPT ![p] = @ + 1]

\* no sampler call in progress
NoDraw == [fn |-> "none"]

\* Process.InitProcess at every process
InitProcess ==
    /\ msgCounter = [p \in PidSet |-> 0]
    /\ deliveredMessages = [p \in PidSet |-> [a \in PidSet |-> EmptyMap]]
    /\ messagesLog = [p \in PidSet |-> [a \in PidSet |-> EmptyMap]]
    /\ out = NoOut
    /\ net = EmptyBag
    /\ draw = NoDraw

Config(n, g, es, et, rs, rt, ds, dt) ==
    [ProcessCount |-> n, GossipSampleSize |-> g,
     EchoSampleSize |-> es, EchoThreshold |-> et,
     ReadySampleSize |-> rs, ReadyThreshold |-> rt,
     DeliverySampleSize |-> ds, DeliveryThreshold |-> dt]

\* the messages of one key (author, seq) with the given values
KeyData(author, seq, values) == {[Author |-> author, SeqNumber |-> seq, Value |-> v] : v \in values}

\* The runs explored: a configuration, the stages and message data the
\* transport delivers to the engine of pids[1] (from any sender), how often
\* the application calls Broadcast there, and the largest Poisson draw.
Scenarios ==
    { \* the ready and delivery thresholds need two distinct sample members
      [config |-> Config(2, 0, 1, 1, 2, 2, 2, 2),
       env |-> [stages |-> {"GOSSIP", "ECHO", "READY_SUBSCRIBE", "READY"},
                msgDatas |-> KeyData(1, 0, Values), broadcasts |-> 0, poisson |-> MaxPoisson]],
      \* the echo threshold needs two distinct sample members
      [config |-> Config(2, 1, 2, 2, 0, 1, 0, 1),
       env |-> [stages |-> {"GOSSIP_SUBSCRIBE", "GOSSIP", "ECHO_SUBSCRIBE", "ECHO"},
                msgDatas |-> KeyData(0, 0, Values), broadcasts |-> 1, poisson |-> MaxPoisson]],
      \* the echo threshold is passed before every sample member has echoed
      [config |-> Config(2, 1, 2, 1, 0, 1, 0, 1),
       env |-> [stages |-> {"GOSSIP_SUBSCRIBE", "GOSSIP", "ECHO_SUBSCRIBE", "ECHO"},
                msgDatas |-> KeyData(0, 0, Values), broadcasts |-> 1, poisson |-> MaxPoisson]],
      \* every stage, a single participant
      [config |-> Config(1, 1, 1, 1, 1, 1, 1, 1),
       env |-> [stages |-> Stages,
                msgDatas |-> KeyData(0, 0, Values), broadcasts |-> 1, poisson |-> MaxPoisson]],
      \* two keys of the author pids[1], which broadcasts twice
      [config |-> Config(2, 1, 0, 1, 0, 1, 0, 1),
       env |-> [stages |-> {"GOSSIP_SUBSCRIBE", "GOSSIP"},
                msgDatas |-> KeyData(0, 0, Values) \cup KeyData(0, 1, Values),
                broadcasts |-> 2, poisson |-> MaxPoisson]] }

Init ==
    \E sc \in Scenarios :
        /\ config = sc.config
        /\ env = sc.env
        /\ InitProcess

\* the transport hands the engine of pids[1] a message of the scenario,
\* with any participant named as the sender
Inbound(stage) ==
    IF stage \in env.stages
    THEN {[senderPid |-> q, msg |-> ScalableProtocolMessage(stage, d)] : q \in PidSet, d \in env.msgDatas}
    ELSE {}

\* the application calls Broadcast at pids[1]
Request_Broadcast ==
    \E msgData \in env.msgDatas :
        /\ msgCounter[pids[1]] < env.broadcasts
        /\ Broadcast(pids[1], msgData.Value)
        /\ UNCHANGED <<config, env, net, draw>>

Next ==
    \/ \E i \in Inbound("GOSSIP_SUBSCRIBE") :
          ReceiveGossipSubscribe(pids[1], i.senderPid, i.msg.MessageData) /\ UNCHANGED <<config, env, net, draw>>
    \/ \E i \in Inbound("GOSSIP") :
          ReceiveGossip(pids[1], i.senderPid, i.msg.MessageData) /\ UNCHANGED <<config, env, net, draw>>
    \/ \E i \in Inbound("ECHO_SUBSCRIBE") :
          ReceiveEchoSubscribe(pids[1], i.senderPid, i.msg.MessageData) /\ UNCHANGED <<config, env, net, draw>>
    \/ \E i \in Inbound("ECHO") :
          ReceiveEcho(pids[1], i.senderPid, i.msg.MessageData) /\ UNCHANGED <<config, env, net, draw>>
    \/ \E i \in Inbound("READY_SUBSCRIBE") :
          ReceiveReadySubscribe(pids[1], i.senderPid, i.msg.MessageData) /\ UNCHANGED <<config, env, net, draw>>
    \/ \E i \in Inbound("READY") :
          ReceiveReady(pids[1], i.senderPid, i.msg.MessageData) /\ UNCHANGED <<config, env, net, draw>>
    \/ Request_Broadcast

Spec == Init /\ [][Next]_vars

(* ------------------------------------------------------------------ *)
(* The system of engines: every process correct, the messages sent by  *)
(* the handlers carried by the transport, none lost                    *)
(* ------------------------------------------------------------------ *)
NetScenarios ==
    { Config(2, 1, 1, 1, 0, 1, 0, 1),   \* GOSSIP, ECHO and the Sieve, no delivery sample
      Config(2, 1, 0, 0, 1, 1, 2, 2) }  \* Sieve on the GOSSIP, READY amplified, delivery on two READYs

\* one Broadcast(1) at pids[1]; the Poisson draws of these runs are 0 or 1
InitNet ==
    /\ config \in NetScenarios
    /\ env = [stages |-> Stages, msgDatas |-> KeyData(0, 0, {1}), broadcasts |-> 1, poisson |-> 1]
    /\ InitProcess

\* the application calls Broadcast at pids[1]; what it sends is in flight
NetBroadcast ==
    \E msgData \in env.msgDatas :
        /\ msgCounter[pids[1]] < env.broadcasts
        /\ Broadcast(pids[1], msgData.Value)
        /\ net' = net (+) out'.msgs
        /\ UNCHANGED <<config, env, draw>>

\* a message in flight reaches its target, whose sends are in flight next
InFlight(stage) == {m \in BagToSet(net) : m.msg.Stage = stage}

Carried(m) ==
    /\ net' = (net (-) SetToBag({m})) (+) out'.msgs
    /\ UNCHANGED <<config, env, draw>>

NextNet ==
    \/ NetBroadcast
    \/ \E m \in InFlight("GOSSIP_SUBSCRIBE") :
          ReceiveGossipSubscribe(m.to, m.sender, m.msg.MessageData) /\ Carried(m)
    \/ \E m \in InFlight("GOSSIP") :
          ReceiveGossip(m.to, m.sender, m.msg.MessageData) /\ Carried(m)
    \/ \E m \in InFlight("ECHO_SUBSCRIBE") :
          ReceiveEchoSubscribe(m.to, m.sender, m.msg.MessageData) /\ Carried(m)
    \/ \E m \in InFlight("ECHO") :
          ReceiveEcho(m.to, m.sender, m.msg.MessageData) /\ Carried(m)
    \/ \E m \in InFlight("READY_SUBSCRIBE") :
          ReceiveReadySubscribe(m.to, m.sender, m.msg.MessageData) /\ Carried(m)
    \/ \E m \in InFlight("READY") :
          ReceiveReady(m.to, m.sender, m.msg.MessageData) /\ Carried(m)

SpecNet == InitNet /\ [][NextNet]_vars

(* ------------------------------------------------------------------ *)
(* The sampler, statement by statement: generateGossipSample and sample *)
(* as called by initMessageState at pids[1]                            *)
(* ------------------------------------------------------------------ *)
SamplerConfigs ==
    {Config(n, g, s, 1, s, 1, s, 1) : n \in 1..MaxProcs, g \in 0..1, s \in 0..MaxSize}

InitSampler ==
    /\ config \in SamplerConfigs
    /\ env = [stages |-> {}, msgDatas |-> KeyData(0, 0, {1}), broadcasts |-> 0, poisson |-> MaxPoisson]
    /\ InitProcess

Returned(fn, requested, set) == [fn |-> "returned", of |-> fn, requested |-> requested, sample |-> set]

\* gSize := int(poisson.Rand()), clipped
Call_generateGossipSample ==
    /\ draw.fn \in {"none", "taken"}
    /\ \E g \in poissonRand :
          draw' = [fn |-> "generateGossipSample", poisson |-> g, gSize |-> clip(g), sample |-> {}]
    /\ out' = NoOut
    /\ UNCHANGED <<config, env, msgCounter, deliveredMessages, messagesLog, net>>

\* one turn of: for len(sample) < gSize { sample[p.getRandomPid(uniform)] = true },
\* the PID drawn being q
Loop_generateGossipSample(q) ==
    /\ draw.fn = "generateGossipSample"
    /\ Cardinality(draw.sample) < draw.gSize
    /\ \E r \in 0..MaxRand :
          /\ getRandomPid(r) = q
          /\ draw' = [draw EXCEPT !.sample = @ \cup {q}]
    /\ UNCHANGED <<config, env, msgCounter, deliveredMessages, messagesLog, out, net>>

Return_generateGossipSample ==
    /\ draw.fn = "generateGossipSample"
    /\ ~(Cardinality(draw.sample) < draw.gSize)
    /\ draw' = Returned("generateGossipSample", draw.poisson, draw.sample)
    /\ UNCHANGED <<config, env, msgCounter, deliveredMessages, messagesLog, out, net>>

\* the three calls of sample in initMessageState
Call_sample ==
    /\ draw.fn \in {"none", "taken"}
    /\ \E c \in {<<"ECHO_SUBSCRIBE", config.EchoSampleSize>>,
                  <<"READY_SUBSCRIBE", config.ReadySampleSize>>,
                  <<"READY_SUBSCRIBE", config.DeliverySampleSize>>} :
          draw' = [fn |-> "sample", stage |-> c[1], size |-> c[2], i |-> 0, sample |-> {}]
    /\ out' = NoOut
    /\ UNCHANGED <<config, env, msgCounter, deliveredMessages, messagesLog, net>>

\* one turn of: for i := 0; i < size; i++ { sample[p.getRandomPid(random)] = true }
Loop_sample ==
    /\ draw.fn = "sample"
    /\ draw.i < draw.size
    /\ \E r \in 0..MaxRand :
          draw' = [draw EXCEPT !.sample = @ \cup {getRandomPid(r)}, !.i = @ + 1]
    /\ UNCHANGED <<config, env, msgCounter, deliveredMessages, messagesLog, out, net>>

\* the loop is left, the stage message is sent to the sample
Return_sample ==
    /\ draw.fn = "sample"
    /\ ~(draw.i < draw.size)
    /\ \E msgData \in env.msgDatas :
          out' = [NoOut EXCEPT !.msgs = broadcastToSet(pids[1], draw.sample,
                                                      ScalableProtocolMessage(draw.stage, msgData))]
    /\ draw' = Returned("sample", draw.size, draw.sample)
    /\ UNCHANGED <<config, env, msgCounter, deliveredMessages, messagesLog, net>>

\* initMessageState assigns the sample to the state; GOSSIP_SUBSCRIBE goes
\* to the gossip sample
Taken ==
    /\ draw.fn = "returned"
    /\ draw' = [draw EXCEPT !.fn = "taken"]
    /\ \E msgData \in env.msgDatas :
          out' = IF draw.of = "generateGossipSample"
                 THEN [NoOut EXCEPT !.msgs = broadcastToSet(pids[1], draw.sample,
                                                ScalableProtocolMessage("GOSSIP_SUBSCRIBE", msgData))]
                 ELSE out
    /\ UNCHANGED <<config, env, msgCounter, deliveredMessages, messagesLog, net>>

NextSampler ==
    \/ Call_generateGossipSample
    \/ \E q \in 0..(MaxProcs - 1) : Loop_generateGossipSample(q)
    \/ Return_generateGossipSample
    \/ Call_sample
    \/ Loop_sample
    \/ Return_sample
    \/ Taken

SpecSampler == InitSampler /\ [][NextSampler]_vars

\* a call runs on, and rand.Int() does not avoid a PID for ever
FairSpecSampler ==
    /\ SpecSampler
    /\ WF_vars(Return_generateGossipSample)
    /\ WF_vars(Loop_sample)
    /\ WF_vars(Return_sample)
    /\ \A q \in 0..(MaxProcs - 1) : WF_vars(Loop_generateGossipSample(q))

(* ------------------------------------------------------------------ *)
(* Reordering: the transport holds the same ECHO and READY messages of *)
(* one key for every process and hands them over in any order; what    *)
(* the handlers send is not carried                                     *)
(* ------------------------------------------------------------------ *)
\* the ECHO and READY messages of the key (pids[1], 0), from any sender
InboundTypes ==
    {[sender |-> q, msg |-> ScalableProtocolMessage(stage, d)] :
        q \in PidSet, stage \in {"ECHO", "READY"}, d \in KeyData(0, 0, Values)}

\* the multisets of up to MaxInbound of them, a message at most twice
InboundBags ==
    {b \in SubBag([t \in InboundTypes |-> 2]) : BagCardinality(b) <= MaxInbound}

\* the multiset b addressed to every process
Addressed(b) ==
    [m \in {[to |-> p, sender |-> t.sender, msg |-> t.msg] : p \in PidSet, t \in DOMAIN b} |->
        b[[sender |-> m.sender, msg |-> m.msg]]]

InitOrder ==
    /\ config = Config(2, 0, 1, 1, 1, 1, 1, 1)
    /\ \E b \in InboundBags :
          /\ env = [stages |-> {"ECHO", "READY"}, msgDatas |-> KeyData(0, 0, Values),
                    broadcasts |-> 0, poisson |-> 0, inbound |-> b]
          /\ net = Addressed(b)
    /\ msgCounter = [p \in PidSet |-> 0]
    /\ deliveredMessages = [p \in PidSet |-> [a \in PidSet |-> EmptyMap]]
    /\ messagesLog = [p \in PidSet |-> [a \in PidSet |-> EmptyMap]]
    /\ out = NoOut
    /\ draw = NoDraw

Handed(m) ==
    /\ net' = net (-) SetToBag({m})
    /\ UNCHANGED <<config, env, draw>>

Handle_Echo == \E m \in InFlight("ECHO") : ReceiveEcho(m.to, m.sender, m.msg.MessageData) /\ Handed(m)

Handle_Ready == \E m \in InFlight("READY") : ReceiveReady(m.to, m.sender, m.msg.MessageData) /\ Handed(m)

NextOrder == Handle_Echo \/ Handle_Ready

SpecOrder == InitOrder /\ [][NextOrder]_vars

(* ------------------------------------------------------------------ *)
(* Properties                                                           *)
(* ------------------------------------------------------------------ *)
\* the keys (author, seq) a process holds a state for
KeysOf(p) == UNION {{<<a, s>> : s \in DOMAIN messagesLog[p][a]} : a \in PidSet}

StateOf(p, k) == messagesLog[p][k[1]][k[2]]

DeliveredKeys(p) == UNION {{<<a, s>> : s \in DOMAIN deliveredMessages[p][a]} : a \in PidSet}

DeliveredValue(p, k) == deliveredMessages[p][k[1]][k[2]]

\* the sample members whose READY(v) the process has accepted
ReadySenders(st, sampleSet, v) == {q \in sampleSet : v \in st.receivedReady[q]}

\* C1: at every process and for every key, a delivered value is never
\* overwritten or removed: once deliveredMessages[author][seq] is set, it
\* keeps its value in every later step
C1_DeliveredOnce ==
    [][\A p \in PidSet : \A k \in DeliveredKeys(p) :
          /\ k[2] \in DOMAIN deliveredMessages'[p][k[1]]
          /\ deliveredMessages'[p][k[1]][k[2]] = DeliveredValue(p, k)]_vars

\* a key is delivered and READYs for another value have reached the
\* delivery threshold too
C1_Witness ==
    \E p \in PidSet : \E k \in DeliveredKeys(p) : \E v \in Values :
        /\ v # DeliveredValue(p, k)
        /\ StateOf(p, k).deliverySampleStat[v] >= config.DeliveryThreshold
        /\ StateOf(p, k).deliverySampleStat[DeliveredValue(p, k)] >= config.DeliveryThreshold

\* C3: deliverySampleStat[v] is the number of distinct deliverySample members
\* whose READY(v) was accepted, and a delivered value has READYs from at
\* least DeliveryThreshold distinct deliverySample members
C3_DeliveryJustified ==
    \A p \in PidSet :
        /\ DeliveredKeys(p) \subseteq KeysOf(p)
        /\ \A k \in KeysOf(p) :
              /\ \A v \in Values :
                    StateOf(p, k).deliverySampleStat[v] =
                        Cardinality(ReadySenders(StateOf(p, k), StateOf(p, k).deliverySample, v))
              /\ k \in DeliveredKeys(p) =>
                    Cardinality(ReadySenders(StateOf(p, k), StateOf(p, k).deliverySample,
                                             DeliveredValue(p, k))) >= config.DeliveryThreshold

\* a delivery on the READYs of two distinct delivery-sample members, while a
\* READY for another value was accepted too
C3_Witness ==
    \E p \in PidSet : \E k \in DeliveredKeys(p) :
        /\ config.DeliveryThreshold = 2
        /\ Cardinality(ReadySenders(StateOf(p, k), StateOf(p, k).deliverySample,
                                    DeliveredValue(p, k))) = 2
        /\ \E v \in Values \ {DeliveredValue(p, k)} : \E q \in PidSet :
              v \in StateOf(p, k).receivedReady[q]

\* the Sieve condition of the key for value v
SieveSatisfied(st, v) ==
    /\ st.echoMessage # Nil
    /\ st.echoMessage.MessageData.Value = v
    /\ st.echoMessagesStat[v] >= config.EchoThreshold

KeyOf(msgData) == <<msgData.Author, msgData.SeqNumber>>

\* C4: when the READY handler has just broadcast READY(v) (amplification),
\* at least ReadyThreshold distinct readySample members have sent READY(v),
\* or the Sieve condition holds for v
C4_AmplificationJustified ==
    \A e \in out.ready :
        e.origin = "amplification" =>
            LET st == StateOf(e.pid, KeyOf(e.msgData))
                v == e.msgData.Value
            IN  \/ Cardinality(ReadySenders(st, st.readySample, v)) >= config.ReadyThreshold
                \/ SieveSatisfied(st, v)

\* an amplification on two distinct ready-sample members, no Sieve involved
C4_Witness ==
    \E e \in out.ready :
        /\ e.origin = "amplification"
        /\ config.ReadyThreshold = 2
        /\ ~StateOf(e.pid, KeyOf(e.msgData)).sentReadyFromSieve
        /\ ReadySenders(StateOf(e.pid, KeyOf(e.msgData)),
                         StateOf(e.pid, KeyOf(e.msgData)).readySample, e.msgData.Value) # {}

\* the Sieve broadcasts of the last handler invocation for key k at p
SieveEvents(o, p, k) == {e \in o.ready : e.origin = "sieve" /\ e.pid = p /\ KeyOf(e.msgData) = k}

\* C5: the Sieve fires at most once per key: a handler broadcasts a
\* Sieve-origin READY only if sentReadyFromSieve was false before, it sets
\* the flag, and the flag never returns to false
C5_SieveOnce ==
    [][\A p \in PidSet :
          /\ \A k \in KeysOf(p) :
                StateOf(p, k).sentReadyFromSieve =>
                    /\ messagesLog'[p][k[1]][k[2]].sentReadyFromSieve
                    /\ SieveEvents(out', p, k) = {}
          /\ \A e \in out'.ready :
                (e.origin = "sieve" /\ e.pid = p) =>
                    messagesLog'[p][e.msgData.Author][e.msgData.SeqNumber].sentReadyFromSieve]_vars

\* the Sieve has fired and a later ECHO of the same value was counted: the
\* Sieve condition holds again but for the flag
C5_Witness ==
    \E p \in PidSet : \E k \in KeysOf(p) :
        /\ StateOf(p, k).sentReadyFromSieve
        /\ SieveEvents(out, p, k) = {}
        /\ \E v \in Values :
              /\ SieveSatisfied(StateOf(p, k), v)
              /\ StateOf(p, k).echoMessagesStat[v] > config.EchoThreshold

\* C6: in every step and for every key, readyMessagesSent, receivedEcho and
\* receivedReady[q] keep every member they have
C6_Monotonic ==
    [][\A p \in PidSet : \A k \in KeysOf(p) :
          /\ k[2] \in DOMAIN messagesLog'[p][k[1]]
          /\ StateOf(p, k).readyMessagesSent \subseteq messagesLog'[p][k[1]][k[2]].readyMessagesSent
          /\ StateOf(p, k).receivedEcho \subseteq messagesLog'[p][k[1]][k[2]].receivedEcho
          /\ \A q \in PidSet :
                StateOf(p, k).receivedReady[q] \subseteq messagesLog'[p][k[1]][k[2]].receivedReady[q]]_vars

\* READY was sent for two values, one by the Sieve, and an ECHO and READYs
\* were counted
C6_Witness ==
    \E p \in PidSet : \E k \in KeysOf(p) :
        /\ Cardinality(StateOf(p, k).readyMessagesSent) = 2
        /\ StateOf(p, k).sentReadyFromSieve
        /\ StateOf(p, k).receivedEcho # {}
        /\ \E q \in PidSet : Cardinality(StateOf(p, k).receivedReady[q]) = 2

RECURSIVE SumOver(_, _)
SumOver(f, S) == IF S = {} THEN 0 ELSE LET x == CHOOSE y \in S : TRUE IN f[x] + SumOver(f, S \ {x})

\* nothing of the engines changed and the handler sent and logged nothing
NoEffect == UNCHANGED <<messagesLog, deliveredMessages, msgCounter>> /\ out' = NoOut

\* the step handled ECHO(md) from q at p without counting it
EchoDropped(p, q, md) ==
    /\ ReceiveEcho(p, q, md)
    /\ \/ q \notin messagesLog'[p][md.Author][md.SeqNumber].receivedEcho
       \/ HasState(p, md) /\ q \in StateOf(p, KeyOf(md)).receivedEcho

\* the counted ECHOs of every key: only of echoSample members, one per sender
EchoCountedOnce(log) ==
    \A p \in PidSet : \A a \in PidSet : \A s \in DOMAIN log[p][a] :
        /\ log[p][a][s].receivedEcho \subseteq log[p][a][s].echoSample
        /\ SumOver(log[p][a][s].echoMessagesStat, Values) = Cardinality(log[p][a][s].receivedEcho)

\* C7 as stated: the counted ECHOs are those of echoSample members, one per
\* sender whatever the values, and a dropped ECHO changes no state and sends
\* nothing
C7_DroppedEchoNoEffect ==
    [][/\ EchoCountedOnce(messagesLog')
       /\ \A p \in PidSet, q \in PidSet : \A md \in env.msgDatas :
             EchoDropped(p, q, md) => NoEffect]_vars

\* C7 amended: the same, for a dropped ECHO of a key the process already
\* holds a state for
C7_EchoCountedOnce ==
    [][/\ EchoCountedOnce(messagesLog')
       /\ \A p \in PidSet, q \in PidSet : \A md \in env.msgDatas :
             (HasState(p, md) /\ EchoDropped(p, q, md)) => NoEffect]_vars

\* both echo-sample members were counted, with different values, and the
\* last handler invocation had no effect to report
C7_Witness ==
    \E p \in PidSet : \E k \in KeysOf(p) :
        /\ Cardinality(StateOf(p, k).receivedEcho) = 2
        /\ \A v \in Values : StateOf(p, k).echoMessagesStat[v] <= 1
        /\ out = NoOut

HasStateAfter(p, md) == md.SeqNumber \in DOMAIN messagesLog'[p][md.Author]

StateAfter(p, md) == messagesLog'[p][md.Author][md.SeqNumber]

\* C8: a subscription adds its sender to the set of its kind, the sets never
\* lose a member, and a subscription from a sender already in the set
\* changes no state and sends nothing
C8_SubscribeIdempotent ==
    [][\A p \in PidSet :
          /\ \A k \in KeysOf(p) :
                /\ k[2] \in DOMAIN messagesLog'[p][k[1]]
                /\ StateOf(p, k).gossipSample \subseteq messagesLog'[p][k[1]][k[2]].gossipSample
                /\ StateOf(p, k).echoSubscriptionSet \subseteq messagesLog'[p][k[1]][k[2]].echoSubscriptionSet
                /\ StateOf(p, k).readySubscriptionSet \subseteq messagesLog'[p][k[1]][k[2]].readySubscriptionSet
          /\ \A q \in PidSet : \A md \in env.msgDatas :
                HasStateAfter(p, md) =>
                    /\ \/ /\ q \in StateAfter(p, md).gossipSample
                          /\ (HasState(p, md) /\ q \in StateOf(p, KeyOf(md)).gossipSample) => NoEffect
                       \/ ~ReceiveGossipSubscribe(p, q, md)
                    /\ \/ /\ q \in StateAfter(p, md).echoSubscriptionSet
                          /\ (HasState(p, md) /\ q \in StateOf(p, KeyOf(md)).echoSubscriptionSet) => NoEffect
                       \/ ~ReceiveEchoSubscribe(p, q, md)
                    /\ \/ /\ q \in StateAfter(p, md).readySubscriptionSet
                          /\ (HasState(p, md) /\ q \in StateOf(p, KeyOf(md)).readySubscriptionSet) => NoEffect
                       \/ ~ReceiveReadySubscribe(p, q, md)]_vars

\* a key with a subscriber of each kind and a GOSSIP, an ECHO and a READY to
\* replay, after a handler invocation without effect
C8_Witness ==
    \E p \in PidSet : \E k \in KeysOf(p) :
        /\ StateOf(p, k).gossipSample # {}
        /\ StateOf(p, k).echoSubscriptionSet # {}
        /\ StateOf(p, k).readySubscriptionSet # {}
        /\ StateOf(p, k).gossipMessage # Nil
        /\ StateOf(p, k).echoMessage # Nil
        /\ StateOf(p, k).readyMessagesSent # {}
        /\ out = NoOut

\* the READY messages among the sends of a handler invocation
ReadyMsgs(o) == [m \in {x \in DOMAIN o.msgs : x.msg.Stage = "READY"} |-> o.msgs[m]]

ReadyTo(p, q, md, v) ==
    [to |-> q, sender |-> p,
     msg |-> ScalableProtocolMessage("READY", [Author |-> md.Author, SeqNumber |-> md.SeqNumber, Value |-> v])]

\* C9: a READY_SUBSCRIBE from a sender not yet subscribed adds it and sends
\* it exactly one READY(v) of the key per value v in readyMessagesSent and
\* no other READY; subscribers stay subscribed, and every READY broadcast of
\* the Sieve or the READY handler goes to every subscriber
C9_ReadyReplay ==
    [][\A p \in PidSet :
          /\ \A k \in KeysOf(p) :
                /\ k[2] \in DOMAIN messagesLog'[p][k[1]]
                /\ StateOf(p, k).readySubscriptionSet \subseteq messagesLog'[p][k[1]][k[2]].readySubscriptionSet
          /\ \A q \in PidSet : \A md \in env.msgDatas :
                (/\ HasStateAfter(p, md)
                 /\ ~(HasState(p, md) /\ q \in StateOf(p, KeyOf(md)).readySubscriptionSet)) =>
                    \/ /\ q \in StateAfter(p, md).readySubscriptionSet
                       /\ ReadyMsgs(out') =
                             SetToBag({ReadyTo(p, q, md, v) : v \in StateAfter(p, md).readyMessagesSent})
                    \/ ~ReceiveReadySubscribe(p, q, md)
          /\ \A e \in out'.ready :
                e.pid = p =>
                    /\ e.msgData.Value \in StateAfter(p, e.msgData).readyMessagesSent
                    /\ \A q \in StateAfter(p, e.msgData).readySubscriptionSet :
                          CopiesIn(ReadyTo(p, q, e.msgData, e.msgData.Value), out'.msgs) >= 1]_vars

\* a late subscriber was just sent the READYs of the two values the process
\* had emitted
C9_Witness ==
    \E p \in PidSet : \E k \in KeysOf(p) : \E q \in StateOf(p, k).readySubscriptionSet :
        /\ Cardinality(StateOf(p, k).readyMessagesSent) = 2
        /\ out.ready = {}
        /\ ReadyMsgs(out) =
              SetToBag({ReadyTo(p, q, [Author |-> k[1], SeqNumber |-> k[2]], v) : v \in Values})

\* Broadcast was called and every message sent has been received: no step
\* of the closed system is enabled any more
Quiescent == msgCounter[pids[1]] = env.broadcasts /\ net = EmptyBag

\* C10: all processes correct, one Broadcast(v) at P0 and every sent message
\* received: every process, P0 included, has delivered (P0, seq 0, v). Once
\* the system is quiescent nothing is delivered any more, so what is
\* eventually delivered is what is delivered then
C10_SingleBroadcastConverges ==
    Quiescent =>
        \A p \in PidSet : \A md \in env.msgDatas :
            /\ KeyOf(md) \in DeliveredKeys(p)
            /\ DeliveredValue(p, KeyOf(md)) = md.Value

\* the transport is quiescent, both processes emitted READY(v) and one has
\* delivered, the other drew the same PID twice for its delivery sample and
\* has not
C10_ShortSample ==
    /\ Quiescent
    /\ config.DeliverySampleSize = 2 /\ config.DeliveryThreshold = 2
    /\ \E md \in env.msgDatas :
          /\ \A p \in PidSet :
                KeyOf(md) \in KeysOf(p) /\ md.Value \in StateOf(p, KeyOf(md)).readyMessagesSent
          /\ \E p \in PidSet :
                /\ KeyOf(md) \notin DeliveredKeys(p)
                /\ Cardinality(StateOf(p, KeyOf(md)).deliverySample) = 1
                /\ \A q \in PidSet \ {p} : KeyOf(md) \in DeliveredKeys(q)

\* every process holds the GOSSIP of the broadcast and has counted ECHO(v)
\* from at least EchoThreshold members of its echoSample
AllEchoed ==
    \A p \in PidSet : \A md \in env.msgDatas :
        /\ KeyOf(md) \in KeysOf(p)
        /\ StateOf(p, KeyOf(md)).gossipMessage = ScalableProtocolMessage("GOSSIP", md)
        /\ StateOf(p, KeyOf(md)).echoMessagesStat[md.Value] >= config.EchoThreshold

\* C11: all processes correct, P0 broadcast v, every message received and
\* every process counted ECHO(v) from at least EchoThreshold members of its
\* echoSample: every process, the author P0 included, has made its Sieve
\* READY(v) fan-out (sentReadyFromSieve is set by that fan-out alone, and
\* once)
C11_SievePath ==
    (Quiescent /\ AllEchoed) =>
        \A p \in PidSet : \A md \in env.msgDatas :
            /\ StateOf(p, KeyOf(md)).sentReadyFromSieve
            /\ md.Value \in StateOf(p, KeyOf(md)).readyMessagesSent

\* every process counted the ECHO of its one sample member, every process
\* but the author made the Sieve fan-out, the author holds no echoMessage
C11_AuthorSilent ==
    /\ Quiescent /\ AllEchoed
    /\ config.EchoThreshold = 1
    /\ \A md \in env.msgDatas :
          /\ StateOf(md.Author, KeyOf(md)).echoMessage = Nil
          /\ ~StateOf(md.Author, KeyOf(md)).sentReadyFromSieve
          /\ \A q \in PidSet \ {md.Author} : StateOf(q, KeyOf(md)).sentReadyFromSieve

\* the step handled a protocol message (q, md) of some stage at p
ReceiveAny(p, q, md) ==
    \/ ReceiveGossipSubscribe(p, q, md)
    \/ ReceiveGossip(p, q, md)
    \/ ReceiveEchoSubscribe(p, q, md)
    \/ ReceiveEcho(p, q, md)
    \/ ReceiveReadySubscribe(p, q, md)
    \/ ReceiveReady(p, q, md)

\* the lines a handler invocation printed
Lines(o) == {o.log[i] : i \in DOMAIN o.log}

\* p has delivered a value for the key of md, and not the value of md
Conflicts(p, md) == KeyOf(md) \in DeliveredKeys(p) /\ DeliveredValue(p, KeyOf(md)) # md.Value

\* C12: a process that has delivered d for a key and handles a protocol
\* message of any stage for that key with another value prints "Detected a
\* duplicated seq number attack" and keeps deliveredMessages as it is
C12_DuplicateSeqDetected ==
    [][\A p \in PidSet, q \in PidSet : \A md \in env.msgDatas :
          (Conflicts(p, md) /\ ReceiveAny(p, q, md)) =>
              /\ Detected(p) \in Lines(out')
              /\ deliveredMessages' = deliveredMessages]_vars

\* What the engine does on such a message: it keeps deliveredMessages as it
\* is, and prints "Detected a duplicated seq number attack" exactly
\* when the message is a READY(v) from a deliverySample member whose
\* READY(v) it had not accepted before; that READY is accepted and counted
DetectedOnCountedReady ==
    [][\A p \in PidSet, q \in PidSet : \A md \in env.msgDatas :
          (Conflicts(p, md) /\ ReceiveAny(p, q, md)) =>
              /\ deliveredMessages' = deliveredMessages
              /\ Detected(p) \in Lines(out') <=>
                    /\ ReceiveReady(p, q, md)
                    /\ q \in StateOf(p, KeyOf(md)).deliverySample
                    /\ md.Value \notin StateOf(p, KeyOf(md)).receivedReady[q]
              /\ Detected(p) \in Lines(out') =>
                    /\ md.Value \in StateAfter(p, md).receivedReady[q]
                    /\ StateAfter(p, md).deliverySampleStat[md.Value] =
                          StateOf(p, KeyOf(md)).deliverySampleStat[md.Value] + 1]_vars

\* the step handled a GOSSIP for a key whose gossipMessage holds another value
SecondGossip(p, q, md) ==
    /\ HasState(p, md)
    /\ StateOf(p, KeyOf(md)).gossipMessage # Nil
    /\ StateOf(p, KeyOf(md)).gossipMessage.MessageData.Value # md.Value
    /\ ReceiveGossip(p, q, md)

\* C13: a process that has received GOSSIP(seq, v1) of an author and
\* receives GOSSIP(seq, v2) of the same author, v2 # v1, prints "Detected a
\* duplicated seq number attack"
C13_BothGossipsDetected ==
    [][\A p \in PidSet, q \in PidSet : \A md \in env.msgDatas :
          SecondGossip(p, q, md) => Detected(p) \in Lines(out')]_vars

\* What the engine does on the second GOSSIP: nothing at all
SecondGossipIgnored ==
    [][\A p \in PidSet, q \in PidSet : \A md \in env.msgDatas :
          SecondGossip(p, q, md) => NoEffect]_vars

\* C14: for every key at every process, gossipMessage and echoMessage, once
\* set, keep their MessageData in every later step, a later Broadcast of
\* the process for that key included
C14_WriteOnce ==
    [][\A p \in PidSet : \A k \in KeysOf(p) :
          /\ k[2] \in DOMAIN messagesLog'[p][k[1]]
          /\ StateOf(p, k).gossipMessage # Nil =>
                messagesLog'[p][k[1]][k[2]].gossipMessage = StateOf(p, k).gossipMessage
          /\ StateOf(p, k).echoMessage # Nil =>
                messagesLog'[p][k[1]][k[2]].echoMessage = StateOf(p, k).echoMessage]_vars

\* the process received a GOSSIP naming itself as the author, cached its
\* ECHO, and its own Broadcast for that seq then replaced gossipMessage
C14_Overwritten ==
    \E p \in PidSet : \E k \in KeysOf(p) :
        /\ k[1] = p /\ msgCounter[p] > k[2]
        /\ StateOf(p, k).echoMessage # Nil
        /\ StateOf(p, k).gossipMessage # Nil
        /\ StateOf(p, k).gossipMessage.MessageData # StateOf(p, k).echoMessage.MessageData

\* What holds: echoMessage is write-once, and gossipMessage is replaced by
\* no inbound message
WriteOnceButBroadcast ==
    [][\A p \in PidSet : \A k \in KeysOf(p) :
          /\ StateOf(p, k).echoMessage # Nil =>
                messagesLog'[p][k[1]][k[2]].echoMessage = StateOf(p, k).echoMessage
          /\ (StateOf(p, k).gossipMessage # Nil /\ msgCounter' = msgCounter) =>
                messagesLog'[p][k[1]][k[2]].gossipMessage = StateOf(p, k).gossipMessage]_vars

Min(a, b) == IF a < b THEN a ELSE b

\* the samples the engine works with are those the sampler returns
SamplerOutcomes ==
    draw.fn = "returned" =>
        IF draw.of = "generateGossipSample"
        THEN draw.sample \in generateGossipSample
        ELSE draw.sample \in {x.sample : x \in sample(pids[1], "ECHO_SUBSCRIBE",
                                                        CHOOSE d \in env.msgDatas : TRUE, draw.requested)}

\* C15: a sampler call with target size s (for the gossip sample the
\* Poisson draw) returns exactly min(s, N) distinct PIDs, all of them
\* participants
C15_ExactSize ==
    draw.fn = "returned" =>
        /\ draw.sample \subseteq PidSet
        /\ Cardinality(draw.sample) = Min(draw.requested, config.ProcessCount)

\* sample returned fewer PIDs than min(size, N)
C15_ShortSample ==
    /\ draw.fn = "returned" /\ draw.of = "sample"
    /\ Cardinality(draw.sample) < Min(draw.requested, config.ProcessCount)

\* What holds: generateGossipSample returns exactly min(gSize, N) PIDs,
\* sample between 1 and min(size, N) of them, none for size 0
SampleSizes ==
    draw.fn = "returned" =>
        /\ draw.sample \subseteq PidSet
        /\ draw.of = "generateGossipSample" =>
              Cardinality(draw.sample) = Min(draw.requested, config.ProcessCount)
        /\ draw.of = "sample" =>
              /\ Cardinality(draw.sample) <= Min(draw.requested, config.ProcessCount)
              /\ draw.requested > 0 => Cardinality(draw.sample) >= 1

\* C16: every sampler call returns, given that the calls run on and the
\* random source does not avoid a PID for ever; a sample never holds more
\* than N PIDs, a Poisson draw above N gives a gossip sample of N PIDs, and
\* a call with size 0 returns the empty set and no subscription is sent
C16_DrawTerminates ==
    /\ [](draw.fn \in {"returned", "taken"} =>
            /\ Cardinality(draw.sample) <= config.ProcessCount
            /\ (draw.of = "generateGossipSample" /\ draw.requested > config.ProcessCount) =>
                  Cardinality(draw.sample) = config.ProcessCount
            /\ draw.requested = 0 => (draw.sample = {} /\ out.msgs = EmptyBag))
    /\ (draw.fn \in {"generateGossipSample", "sample"}) ~> (draw.fn = "returned")

\* a Poisson draw above N was clipped and the loop has ended with all PIDs
C16_Witness ==
    /\ draw.fn = "returned" /\ draw.of = "generateGossipSample"
    /\ draw.requested > config.ProcessCount
    /\ config.ProcessCount >= 2
    /\ draw.sample = PidSet

\* the counters of the key before the step: zero if it had no state yet
StatBefore(p, md, stat) ==
    IF HasState(p, md) THEN StateOf(p, KeyOf(md))[stat] ELSE newMessageState[stat]

SentBefore(p, md) ==
    IF HasState(p, md) THEN StateOf(p, KeyOf(md)).readyMessagesSent ELSE {}

\* what a READY(md) from q may do to the counters of its key at p
ReadyFrame(p, q, md) ==
    LET after == StateAfter(p, md)
        rStat == StatBefore(p, md, "readySampleStat")
        dStat == StatBefore(p, md, "deliverySampleStat")
        bump(f) == [f EXCEPT ![md.Value] = @ + 1]
    IN  /\ after.readySampleStat = rStat \/ after.readySampleStat = bump(rStat)
        /\ after.deliverySampleStat = dStat \/ after.deliverySampleStat = bump(dStat)
        /\ after.readySampleStat # rStat => q \in after.readySample
        /\ after.deliverySampleStat # dStat => q \in after.deliverySample
        /\ after.readySample \cap after.deliverySample = {} =>
              (after.readySampleStat = rStat \/ after.deliverySampleStat = dStat)
        /\ q \notin after.readySample \cup after.deliverySample =>
              /\ after.readySampleStat = rStat
              /\ after.deliverySampleStat = dStat
              /\ after.readyMessagesSent = SentBefore(p, md)
              /\ deliveredMessages' = deliveredMessages

\* C17: the READY handler advances readySampleStat[v] only for a sender in
\* readySample and deliverySampleStat[v] only for a sender in
\* deliverySample; with disjoint samples a READY advances at most one of
\* the two, and a READY from a sender in neither sample leaves both
\* counters, readyMessagesSent and deliveredMessages as they are
C17_DisjointSamples ==
    [][\A p \in PidSet, q \in PidSet : \A md \in env.msgDatas :
          HasStateAfter(p, md) => (ReadyFrame(p, q, md) \/ ~ReceiveReady(p, q, md))]_vars

\* disjoint samples, a READY(v) of the readySample member counted there
\* and not in deliverySampleStat
C17_Witness ==
    \E p \in PidSet : \E k \in KeysOf(p) : \E v \in Values :
        /\ StateOf(p, k).readySample # {} /\ StateOf(p, k).deliverySample # {}
        /\ StateOf(p, k).readySample \cap StateOf(p, k).deliverySample = {}
        /\ StateOf(p, k).readySampleStat[v] = 1
        /\ StateOf(p, k).deliverySampleStat[v] = 0
        /\ \E w \in Values : StateOf(p, k).deliverySampleStat[w] = 1

\* C18: the READY handler broadcasts READY(v) only for a v that was not in
\* readyMessagesSent: once READY(v) was sent, by amplification or by the
\* Sieve, no accepted READY(v) causes another amplification broadcast
C18_AmplifiedOnce ==
    [][\A e \in out'.ready :
          e.origin = "amplification" =>
              e.msgData.Value \notin SentBefore(e.pid, e.msgData)]_vars

\* the Sieve had sent READY(v), and the READY handler has just broadcast
\* READY(v) again
C18_Reamplified ==
    \E e \in out.ready :
        /\ e.origin = "amplification"
        /\ StateOf(e.pid, KeyOf(e.msgData)).sentReadyFromSieve
        /\ StateOf(e.pid, KeyOf(e.msgData)).echoMessage.MessageData.Value = e.msgData.Value

\* What holds: an amplification broadcast of READY(v) follows a READY(v)
\* accepted from a readySample member that brought readySampleStat[v] to
\* ReadyThreshold or above
AmplifiedAtThreshold ==
    [][\A e \in out'.ready :
          e.origin = "amplification" =>
              LET after == StateAfter(e.pid, e.msgData)
                  v == e.msgData.Value
              IN  /\ after.readySampleStat[v] >= config.ReadyThreshold
                  /\ after.readySampleStat[v] = StatBefore(e.pid, e.msgData, "readySampleStat")[v] + 1
                  /\ v \in after.readyMessagesSent]_vars

\* C19: a Sieve READY(v) is sent only with echoMessage cached, v its value
\* and echoMessagesStat[v] >= EchoThreshold; and after every handler a key
\* with echoMessage cached and echoMessagesStat[its value] >= EchoThreshold
\* has sentReadyFromSieve set and that value in readyMessagesSent, whether
\* the ECHOs came before or after the GOSSIP
C19_SieveExact ==
    /\ \A e \in out.ready :
          e.origin = "sieve" => SieveSatisfied(StateOf(e.pid, KeyOf(e.msgData)), e.msgData.Value)
    /\ \A p \in PidSet : \A k \in KeysOf(p) :
          LET st == StateOf(p, k)
          IN  /\ st.sentReadyFromSieve => st.echoMessage # Nil
              /\ st.echoMessage # Nil =>
                    (st.echoMessagesStat[st.echoMessage.MessageData.Value] >= config.EchoThreshold
                        <=> st.sentReadyFromSieve)
              /\ st.sentReadyFromSieve =>
                    st.echoMessage.MessageData.Value \in st.readyMessagesSent

\* two ECHOs were counted first; the GOSSIP handler has just sent the ECHO
\* to a subscriber and made the Sieve broadcast
C19_Witness ==
    \E e \in out.ready :
        /\ e.origin = "sieve"
        /\ config.EchoThreshold = 2
        /\ \E m \in DOMAIN out.msgs : m.msg.Stage = "ECHO"

\* the GOSSIP effect for md has run in the step: the GOSSIP and the ECHO are
\* cached, the GOSSIP went to gossipSample and the ECHO to echoSubscriptionSet
GossipEffect(p, md) ==
    LET after == StateAfter(p, md)
    IN  /\ after.gossipMessage = ScalableProtocolMessage("GOSSIP", md)
        /\ after.echoMessage = ScalableProtocolMessage("ECHO", md)
        /\ \A t \in after.gossipSample :
              CopiesIn([to |-> t, sender |-> p, msg |-> after.gossipMessage], out'.msgs) >= 1
        /\ \A t \in after.echoSubscriptionSet :
              CopiesIn([to |-> t, sender |-> p, msg |-> after.echoMessage], out'.msgs) >= 1

\* C20: a process runs the GOSSIP effect on the first GOSSIP it handles for
\* a key and on no later one: once it has handled a GOSSIP for the key the
\* ECHO of the first one is cached and stays, and a GOSSIP for a key whose
\* gossipMessage is set changes no state and sends nothing
C20_FirstGossipOnly ==
    [][\A p \in PidSet :
          /\ \A k \in KeysOf(p) :
                StateOf(p, k).echoMessage # Nil =>
                    messagesLog'[p][k[1]][k[2]].echoMessage = StateOf(p, k).echoMessage
          /\ \A q \in PidSet : \A md \in env.msgDatas :
                HasStateAfter(p, md) =>
                    \/ /\ StateAfter(p, md).echoMessage # Nil
                       /\ (HasState(p, md) /\ StateOf(p, KeyOf(md)).gossipMessage # Nil) => NoEffect
                    \/ ~ReceiveGossip(p, q, md)]_vars

\* the author has broadcast, no ECHO is cached and the last handler
\* invocation did nothing
C20_AuthorNoEcho ==
    \E p \in PidSet : \E k \in KeysOf(p) :
        /\ k[1] = p /\ msgCounter[p] > k[2]
        /\ StateOf(p, k).gossipMessage # Nil
        /\ StateOf(p, k).echoMessage = Nil
        /\ StateOf(p, k).echoSubscriptionSet # {}
        /\ out = NoOut

\* What holds: the effect runs on a GOSSIP that finds gossipMessage empty,
\* a GOSSIP that finds it set does nothing, and the ECHO cached stays
GossipGuarded ==
    [][\A p \in PidSet :
          /\ \A k \in KeysOf(p) :
                StateOf(p, k).echoMessage # Nil =>
                    messagesLog'[p][k[1]][k[2]].echoMessage = StateOf(p, k).echoMessage
          /\ \A q \in PidSet : \A md \in env.msgDatas :
                HasStateAfter(p, md) =>
                    \/ IF HasState(p, md) /\ StateOf(p, KeyOf(md)).gossipMessage # Nil
                       THEN NoEffect
                       ELSE GossipEffect(p, md)
                    \/ ~ReceiveGossip(p, q, md)]_vars

\* C21: at every process and for every key, echoMessage is set exactly when
\* gossipMessage is set, and then both carry the same MessageData; so at
\* the author after its Broadcast too
C21_EchoIffGossip ==
    \A p \in PidSet : \A k \in KeysOf(p) :
        /\ StateOf(p, k).echoMessage # Nil <=> StateOf(p, k).gossipMessage # Nil
        /\ StateOf(p, k).echoMessage # Nil =>
              StateOf(p, k).echoMessage.MessageData = StateOf(p, k).gossipMessage.MessageData

\* every message was received; a process drew the author into its echoSample
\* and subscribed there, the author holds the GOSSIP and no ECHO, and the
\* subscriber has counted no ECHO
C21_AuthorServesNoEcho ==
    /\ Quiescent
    /\ \E md \in env.msgDatas : \E q \in PidSet \ {md.Author} :
          /\ KeyOf(md) \in KeysOf(q) /\ KeyOf(md) \in KeysOf(md.Author)
          /\ StateOf(md.Author, KeyOf(md)).gossipMessage = ScalableProtocolMessage("GOSSIP", md)
          /\ StateOf(md.Author, KeyOf(md)).echoMessage = Nil
          /\ q \in StateOf(md.Author, KeyOf(md)).echoSubscriptionSet
          /\ StateOf(q, KeyOf(md)).echoSample = {md.Author}
          /\ StateOf(q, KeyOf(md)).receivedEcho = {}

\* What holds: a cached ECHO comes with a cached GOSSIP, of the same
\* MessageData unless the process is the author and has broadcast the key;
\* a GOSSIP without ECHO is the author's own broadcast
EchoImpliesGossip ==
    \A p \in PidSet : \A k \in KeysOf(p) :
        LET st == StateOf(p, k)
            own == k[1] = p /\ msgCounter[p] > k[2]
        IN  /\ st.echoMessage # Nil => st.gossipMessage # Nil
            /\ (st.echoMessage # Nil /\ ~own) =>
                  st.echoMessage.MessageData = st.gossipMessage.MessageData
            /\ (st.gossipMessage # Nil /\ st.echoMessage = Nil) => own

\* the messages of one stage and one key among the sends of a handler
Subs(o, k, stage) ==
    [m \in {x \in DOMAIN o.msgs : x.msg.Stage = stage /\ KeyOf(x.msg.MessageData) = k} |-> o.msgs[m]]

\* the step sent the subscriptions of a state just created for the key of
\* md: GOSSIP_SUBSCRIBE to the gossip sample as drawn (a GOSSIP_SUBSCRIBE
\* handled in the same step may add its sender afterwards), ECHO_SUBSCRIBE
\* to echoSample, READY_SUBSCRIBE to readySample and to deliverySample
FirstReference(p, md) ==
    LET after == StateAfter(p, md)
    IN  \E d \in env.msgDatas :
            /\ KeyOf(d) = KeyOf(md)
            /\ \E g \in SUBSET after.gossipSample :
                  /\ Cardinality(after.gossipSample \ g) <= 1
                  /\ Subs(out', KeyOf(md), "GOSSIP_SUBSCRIBE") =
                        broadcastToSet(p, g, ScalableProtocolMessage("GOSSIP_SUBSCRIBE", d))
            /\ Subs(out', KeyOf(md), "ECHO_SUBSCRIBE") =
                  broadcastToSet(p, after.echoSample, ScalableProtocolMessage("ECHO_SUBSCRIBE", d))
            /\ Subs(out', KeyOf(md), "READY_SUBSCRIBE") =
                  broadcastToSet(p, after.readySample, ScalableProtocolMessage("READY_SUBSCRIBE", d))
                  (+) broadcastToSet(p, after.deliverySample, ScalableProtocolMessage("READY_SUBSCRIBE", d))

\* C22: a key gets its state on the first Broadcast or inbound message of
\* any stage that references it, with the subscriptions to the samples
\* drawn then, and a process sends nothing for a key it has no state for;
\* a key that has a state keeps it, its echoSample, readySample and
\* deliverySample never change, and no step sends a subscription for it
C22_InitOnce ==
    [][\A p \in PidSet :
          /\ \A k \in KeysOf(p) :
                /\ k[2] \in DOMAIN messagesLog'[p][k[1]]
                /\ messagesLog'[p][k[1]][k[2]].echoSample = StateOf(p, k).echoSample
                /\ messagesLog'[p][k[1]][k[2]].readySample = StateOf(p, k).readySample
                /\ messagesLog'[p][k[1]][k[2]].deliverySample = StateOf(p, k).deliverySample
                /\ \A stage \in {"GOSSIP_SUBSCRIBE", "ECHO_SUBSCRIBE", "READY_SUBSCRIBE"} :
                      DOMAIN Subs(out', k, stage) = {}
          /\ msgCounter'[p] # msgCounter[p] => msgCounter[p] \in DOMAIN messagesLog'[p][p]
          /\ \A md \in env.msgDatas :
                (~HasState(p, md) /\ HasStateAfter(p, md)) => FirstReference(p, md)
          /\ \A m \in DOMAIN out'.msgs :
                m.sender = p => HasStateAfter(p, m.msg.MessageData)]_vars

\* the process holds the states of two keys: one was referenced by a GOSSIP
\* and then by its own Broadcast, the other has just been created and its
\* GOSSIP_SUBSCRIBE sent
C22_Witness ==
    \E p \in PidSet : \E k1 \in KeysOf(p) : \E k2 \in KeysOf(p) \ {k1} :
        /\ StateOf(p, k1).echoMessage # Nil
        /\ k1[1] = p /\ msgCounter[p] > k1[2]
        /\ DOMAIN Subs(out, k1, "GOSSIP_SUBSCRIBE") = {}
        /\ DOMAIN Subs(out, k2, "GOSSIP_SUBSCRIBE") # {}
        /\ StateOf(p, k2).gossipMessage = Nil

\* the MessageData a Broadcast(v) of p is about to construct
OwnData(p, v) == [Author |-> p, SeqNumber |-> msgCounter[p], Value |-> v]

\* the step cached GOSSIP(md) at p and sent it to the gossipSample of the key
GossipEmitted(p, md) ==
    /\ HasStateAfter(p, md)
    /\ StateAfter(p, md).gossipMessage = ScalableProtocolMessage("GOSSIP", md)
    /\ Subs(out', KeyOf(md), "GOSSIP") =
          broadcastToSet(p, StateAfter(p, md).gossipSample, ScalableProtocolMessage("GOSSIP", md))

\* C23: a Broadcast(v) of p takes the current msgCounter as seq, sends
\* GOSSIP(p, seq, v) to the gossipSample of that key and adds exactly one
\* to msgCounter; the counter changes in no other way, so the k-th
\* Broadcast uses seq k-1 (the seqs below the counter are those broadcast)
\* and no two share a key; an inbound message never changes the counter
C23_CounterIsSeq ==
    [][\A p \in PidSet :
          /\ msgCounter'[p] \in {msgCounter[p], msgCounter[p] + 1}
          /\ msgCounter'[p] # msgCounter[p] =>
                /\ \E v \in Values : GossipEmitted(p, OwnData(p, v))
                /\ \A q \in PidSet : \A md \in env.msgDatas : ~ReceiveAny(p, q, md)
          /\ \A seq \in 0..(msgCounter'[p] - 1) :
                /\ seq \in DOMAIN messagesLog'[p][p]
                /\ messagesLog'[p][p][seq].gossipMessage # Nil
          /\ \A v \in Values :
                (/\ HasStateAfter(p, OwnData(p, v))
                 /\ StateAfter(p, OwnData(p, v)).gossipMessage =
                       ScalableProtocolMessage("GOSSIP", OwnData(p, v))) =>
                    \/ /\ msgCounter'[p] = msgCounter[p] + 1
                       /\ GossipEmitted(p, OwnData(p, v))
                    \/ ~Broadcast(p, v)]_vars

\* the second Broadcast of the process has just sent its GOSSIP with seq 1
\* to a gossip sample of two; the first one, with seq 0, carried another
\* value
C23_Witness ==
    \E p \in PidSet : \E v \in Values :
        /\ msgCounter[p] = 2
        /\ {0, 1} \subseteq DOMAIN messagesLog[p][p]
        /\ messagesLog[p][p][1].gossipMessage =
              ScalableProtocolMessage("GOSSIP", [Author |-> p, SeqNumber |-> 1, Value |-> v])
        /\ messagesLog[p][p][0].gossipMessage.MessageData.Value # v
        /\ Cardinality(messagesLog[p][p][1].gossipSample) = 2
        /\ Subs(out, <<p, 1>>, "GOSSIP") =
              broadcastToSet(p, PidSet, messagesLog[p][p][1].gossipMessage)

\* the processes that hold a state for key k
Replicas(k) == {p \in PidSet : k \in KeysOf(p)}

SameSamples(a, b) ==
    /\ a.echoSample = b.echoSample
    /\ a.readySample = b.readySample
    /\ a.deliverySample = b.deliverySample

\* the senders of a message of the stage (and value) in the multiset b
SendersOf(b, stage) == {t.sender : t \in {x \in DOMAIN b : x.msg.Stage = stage}}

SendersOfValue(b, stage, v) ==
    {t.sender : t \in {x \in DOMAIN b : x.msg.Stage = stage /\ x.msg.MessageData.Value = v}}

\* a member of the sample sent ECHOs for two values
Equivocated(b, sampleSet) ==
    \E q \in sampleSet : \E v \in Values : \E w \in Values \ {v} :
        q \in SendersOfValue(b, "ECHO", v) \cap SendersOfValue(b, "ECHO", w)

\* C24 as stated: two processes with the same samples that handled the same
\* multiset of ECHO and READY messages of a key, in whatever orders, hold
\* the same receivedEcho, receivedReady, echoMessagesStat, readySampleStat
\* and deliverySampleStat
C24_OrderInsensitive ==
    net = EmptyBag =>
        \A md \in env.msgDatas : \A p \in Replicas(KeyOf(md)) : \A q \in Replicas(KeyOf(md)) :
            LET a == StateOf(p, KeyOf(md))
                b == StateOf(q, KeyOf(md))
            IN  SameSamples(a, b) =>
                    /\ a.receivedEcho = b.receivedEcho
                    /\ a.receivedReady = b.receivedReady
                    /\ a.echoMessagesStat = b.echoMessagesStat
                    /\ a.readySampleStat = b.readySampleStat
                    /\ a.deliverySampleStat = b.deliverySampleStat

\* C24 amended: the same for receivedEcho, receivedReady, readySampleStat,
\* deliverySampleStat and the sum of echoMessagesStat; echoMessagesStat
\* itself is the same if no echoSample member sent ECHOs for two values
C24_OrderInsensitiveCounters ==
    net = EmptyBag =>
        \A md \in env.msgDatas : \A p \in Replicas(KeyOf(md)) : \A q \in Replicas(KeyOf(md)) :
            LET a == StateOf(p, KeyOf(md))
                b == StateOf(q, KeyOf(md))
            IN  SameSamples(a, b) =>
                    /\ a.receivedEcho = b.receivedEcho
                    /\ a.receivedReady = b.receivedReady
                    /\ a.readySampleStat = b.readySampleStat
                    /\ a.deliverySampleStat = b.deliverySampleStat
                    /\ SumOver(a.echoMessagesStat, Values) = SumOver(b.echoMessagesStat, Values)
                    /\ ~Equivocated(env.inbound, a.echoSample) =>
                          a.echoMessagesStat = b.echoMessagesStat

\* two processes with the same samples handled READYs for two values of
\* their delivery-sample member in different orders: each delivered the
\* value it saw first, and their counters agree
C24_Witness ==
    /\ net = EmptyBag
    /\ \E md \in env.msgDatas : \E p \in Replicas(KeyOf(md)) : \E q \in Replicas(KeyOf(md)) :
          /\ SameSamples(StateOf(p, KeyOf(md)), StateOf(q, KeyOf(md)))
          /\ KeyOf(md) \in DeliveredKeys(p) \cap DeliveredKeys(q)
          /\ DeliveredValue(p, KeyOf(md)) # DeliveredValue(q, KeyOf(md))
          /\ StateOf(p, KeyOf(md)).deliverySampleStat = [v \in Values |-> 1]
          /\ StateOf(q, KeyOf(md)).deliverySampleStat = [v \in Values |-> 1]

\* What holds: once every message is handled the counters are those of the
\* multiset, whatever the order; echoMessagesStat[v] counts the echoSample
\* members whose first ECHO handled was for v
CountersOfInbound ==
    net = EmptyBag =>
        \A md \in env.msgDatas : \A p \in Replicas(KeyOf(md)) :
            LET st == StateOf(p, KeyOf(md))
                b == env.inbound
            IN  /\ st.receivedEcho = st.echoSample \cap SendersOf(b, "ECHO")
                /\ \A q \in PidSet :
                      st.receivedReady[q] = {v \in Values : q \in SendersOfValue(b, "READY", v)}
                /\ \A v \in Values :
                      /\ st.readySampleStat[v] =
                            Cardinality(st.readySample \cap SendersOfValue(b, "READY", v))
                      /\ st.deliverySampleStat[v] =
                            Cardinality(st.deliverySample \cap SendersOfValue(b, "READY", v))
                      /\ st.echoMessagesStat[v] <=
                            Cardinality(st.echoSample \cap SendersOfValue(b, "ECHO", v))
                      /\ ~Equivocated(b, st.echoSample) =>
                            st.echoMessagesStat[v] =
                                Cardinality(st.echoSample \cap SendersOfValue(b, "ECHO", v))

====
